---- MODULE Spec2Model ----
(***************************************************************************)
(* Model of the Swiss Ephemeris JNI wrapper                                *)
(* (android/app/src/main/cpp/swisseph_wrapper.cpp).                        *)
(*                                                                         *)
(* The wrapper has five native entry points.  Each forwards primitive      *)
(* arguments to the ephemeris library and marshals the library's doubles   *)
(* into a java.util.HashMap or java.util.ArrayList through JNI.  The only  *)
(* state that outlives a call is the library's process-wide ephemeris path *)
(* and sidereal mode.                                                      *)
(*                                                                         *)
(* Doubles are kept symbolic: a library output is a record naming the      *)
(* computation and the slot it came from, so that "the value at key k is   *)
(* slot k of this very computation" is a statement TLC can refute.         *)
(*                                                                         *)
(* Managed threads call the entry points; a thread is either outside a     *)
(* call ("idle": nothing called yet, "done": holding the last call's       *)
(* outcome) or inside getPlanetPositionInternal between its two accesses   *)
(* to the sidereal mode ("pp_calc").  The other entry points touch the     *)
(* process-wide state at most once and their JNI work is thread-local, so  *)
(* each is one step.                                                       *)
(***************************************************************************)
EXTENDS Integers, Sequences, FiniteSets, TLC

\* ------------------------------------------------------------- bounds
\* Julian days offered as julianDay arguments: 1..MaxJd.
MaxJd == 2
\* Sidereal mode ids offered as ayanamsha arguments: -1..MaxAyanamsha.
MaxAyanamsha == 1

\* Managed threads calling into the wrapper.
Threads == {"T1", "T2"}

JulianDays == 1..MaxJd
SidModes == 0..MaxAyanamsha
AyanamshaArgs == -1..MaxAyanamsha

\* Body ids the library knows, and the ids offered as planet arguments
\* (one of them unknown to the library).
Bodies == {0}
PlanetArgs == {0, -5}

\* The path JNI_OnLoad installs, and the paths offered to setEphemerisPath.
DefaultPath == "/data/data/com.supernova.skvk_application/files/ephemeris"
PathArgs == {DefaultPath, "/nonexistent"}

\* Geographic positions and house-system selectors offered to the house
\* entry points (one selector unknown to the library).
GeoLats == {0, 52}
GeoLons == {13}
KnownHouseSystems == {"P"}
HouseSystemArgs == {"P", "?"}

\* Directories that hold ephemeris data files.
EphemerisDirs == {DefaultPath}

\* ------------------------------------------------------------- values
\* A null reference / nullptr.
Null == [kind |-> "null"]
\* The reference a variadic JNI call reads for an Object parameter when the
\* caller passed a raw double in that position: whatever the argument slot
\* holds (null, or a reference to some unrelated live object).
Wild == [kind |-> "wild"]
JBoolean(b) == [kind |-> "jboolean", b |-> b]
JDouble(d) == [kind |-> "jdouble", d |-> d]
JMap(m) == [kind |-> "map", m |-> m]
JList(s) == [kind |-> "list", s |-> s]
\* What the managed caller gets when the native method returns with an
\* exception pending: the exception, not the returned reference.
Thrown == [kind |-> "thrown"]

VARIABLES
    ephePath,   \* library: process-wide ephemeris path
    sidMode,    \* library: process-wide sidereal mode
    crashed,    \* the process was aborted by the runtime
    pc,         \* per thread: "idle", "pp_calc", "done", "dead"
    call,       \* per thread: the entry point called and its arguments
    ret         \* per thread: the outcome of the last completed call: the
                \* value returned (val), whether an exception is pending at
                \* the return (exc), and what the handler saw: the library's
                \* status (result), the sidereal mode the library ran under
                \* (sid), whether a result object was created (made), the
                \* ephemeris path before and after

vars == <<ephePath, sidMode, crashed, pc, call, ret>>

NoCall == [op |-> "none"]
NoRet == [val |-> Null, exc |-> FALSE]


\* ------------------------------------------------------------- library
\* swe_calc_ut as the wrapper sees it: a status (negative on failure, the
\* flag word otherwise) and the six result slots xx[0..5].  The position is
\* computed for the sidereal mode and the ephemeris path in force when the
\* library runs.
swe_calc_ut(tjd_ut, ipl, sid, path) ==
    [result |-> IF ipl \in Bodies /\ path \in EphemerisDirs THEN 65792 ELSE -1,
     xx |-> [k \in 0..5 |->
                [fn |-> "swe_calc_ut", jd |-> tjd_ut, ipl |-> ipl,
                 sid |-> sid, slot |-> k]]]

\* swe_houses: a status, the cusp array cusps[0..12] (cusps[1..12] are the
\* houses) and the auxiliary angles ascmc[0..9].  It reads neither the
\* ephemeris path nor the sidereal mode.
swe_houses(tjd_ut, geolat, geolon, hsys) ==
    LET slot(a, k) == [fn |-> "swe_houses", jd |-> tjd_ut, lat |-> geolat,
                       lon |-> geolon, hsys |-> hsys, arr |-> a, slot |-> k]
    IN  [result |-> IF hsys \in KnownHouseSystems THEN 0 ELSE -1,
         cusps |-> [k \in 0..12 |-> slot("cusps", k)],
         ascmc |-> [k \in 0..9 |-> slot("ascmc", k)]]

\* swe_get_ayanamsa_ut: the offset for the sidereal mode in force.
swe_get_ayanamsa_ut(tjd_ut, sid) ==
    [fn |-> "swe_get_ayanamsa_ut", jd |-> tjd_ut, sid |-> sid]

\* ------------------------------------------------------------- JNI
\* GetStringUTFChars: the characters of the string, or nullptr when they
\* cannot be read.
GetStringUTFChars(path, readable) ==
    IF readable THEN [kind |-> "chars", s |-> path] ELSE Null

\* The JNI call of a marshaling sequence that fails, if any: a lookup or an
\* allocation (FindClass, GetMethodID, NewObject), the NewStringUTF of the
\* k-th key, or the k-th CallObjectMethod / CallBooleanMethod.
NoFault == [f |-> "none", k |-> 0]
LookupFaults == {[f |-> x, k |-> 0] : x \in {"FindClass", "GetMethodID", "NewObject"}}
MapFaults(n) ==
    {NoFault} \cup LookupFaults
    \cup {[f |-> x, k |-> i] : x \in {"NewStringUTF", "CallObjectMethod"}, i \in 1..n}
ListFaults(n) ==
    {NoFault} \cup LookupFaults
    \cup {[f |-> "CallBooleanMethod", k |-> i] : i \in 1..n}

\* What the runtime does with the argument slot of a variadic call that was
\* given a raw double where a jobject is expected, and what it does when a
\* JNI function is called while an exception is pending.  Both are
\* undefined: the slot may decode to some reference or abort the process,
\* the call may go on or abort the process.
SlotReads == {"reference", "abort"}
PendingCalls == {"continue", "abort"}

\* A failed lookup or allocation leaves nullptr in mapClass / mapInit /
\* resultMap, and the next JNI call is handed that nullptr.
Aborts(fault, slot, pending) ==
    \/ fault \in LookupFaults
    \/ slot = "abort"
    \/ fault # NoFault /\ pending = "abort"

\* The jobject the callee reads for the double d passed through "...".
VarArgObject(d) == Wild

\* java.util.HashMap.put
HashMapPut(m, key, value) ==
    [x \in DOMAIN m \cup {key} |-> IF x = key THEN value ELSE m[x]]

EmptyMap == [x \in {} |-> Null]

\* The key/value blocks of a result map: keys[i] is put with vals[i], i = 1..n.
\* A failed NewStringUTF hands put a null key; a put that throws binds nothing.
RECURSIVE PutAll(_, _, _, _)
PutAll(keys, vals, fault, i) ==
    IF i = 0 THEN EmptyMap
    ELSE LET m == PutAll(keys, vals, fault, i - 1)
             key == IF fault = [f |-> "NewStringUTF", k |-> i]
                    THEN "(null)" ELSE keys[i]
         IN  IF fault = [f |-> "CallObjectMethod", k |-> i]
             THEN m
             ELSE HashMapPut(m, key, VarArgObject(vals[i]))

\* java.util.ArrayList.add for vals[1..i] in order; an add that throws
\* appends nothing.
RECURSIVE AddAll(_, _, _)
AddAll(vals, fault, i) ==
    IF i = 0 THEN << >>
    ELSE LET s == AddAll(vals, fault, i - 1)
         IN  IF fault = [f |-> "CallBooleanMethod", k |-> i]
             THEN s
             ELSE Append(s, VarArgObject(vals[i]))

\* Every way the marshaling of a result can end: the process aborted, or
\* the handler reaching its return statement with the collection built so
\* far and, after a failed JNI call, an exception pending.
Aborted == [abort |-> TRUE, val |-> Null, exc |-> FALSE]

\* The faults after which the handler can still reach its return statement.
Survivable(faults) ==
    {fault \in faults : \E slot \in SlotReads, pending \in PendingCalls :
                            ~Aborts(fault, slot, pending)}

MayAbort(faults) ==
    \E fault \in faults, slot \in SlotReads, pending \in PendingCalls :
        Aborts(fault, slot, pending)

MapResults(keys, vals) ==
    (IF MayAbort(MapFaults(Len(keys))) THEN {Aborted} ELSE {})
    \cup {[abort |-> FALSE,
           val |-> JMap(PutAll(keys, vals, fault, Len(keys))),
           exc |-> fault # NoFault] : fault \in Survivable(MapFaults(Len(keys)))}

ListResults(vals) ==
    (IF MayAbort(ListFaults(Len(vals))) THEN {Aborted} ELSE {})
    \cup {[abort |-> FALSE,
           val |-> JList(AddAll(vals, fault, Len(vals))),
           exc |-> fault # NoFault] : fault \in Survivable(ListFaults(Len(vals)))}

\* ------------------------------------------------------------- state
Init ==
    /\ ephePath = DefaultPath
    /\ sidMode \in SidModes
    /\ crashed = FALSE
    /\ pc = [t \in Threads |-> "idle"]
    /\ call = [t \in Threads |-> NoCall]
    /\ ret = [t \in Threads |-> NoRet]

\* A thread that is not inside a call may make one.
CanCall(t) == ~crashed /\ pc[t] \in {"idle", "done"}

\* The runtime aborts the process: every thread is gone.
Abort ==
    /\ crashed' = TRUE
    /\ pc' = [t \in Threads |-> "dead"]
    /\ call' = [t \in Threads |-> NoCall]
    /\ ret' = [t \in Threads |-> NoRet]
    /\ UNCHANGED <<ephePath, sidMode>>

Return(t, c, r) ==
    /\ pc' = [pc EXCEPT ![t] = "done"]
    /\ call' = [call EXCEPT ![t] = c]
    /\ ret' = [ret EXCEPT ![t] = r]
    /\ UNCHANGED crashed

\* What crosses the boundary to the managed caller.
Delivered(r) == IF r.exc THEN Thrown ELSE r.val

\* ------------------------------------------------------------- setEphemerisPath
\* Variant: the path is installed only if the directory holds data.
SetEphemerisPathOutcome_Validating(path, readable, cur) ==
    LET pathStr == GetStringUTFChars(path, readable)
    IN  IF pathStr = Null \/ path \notin EphemerisDirs
        THEN [val |-> JBoolean(FALSE), ephe |-> cur]
        ELSE [val |-> JBoolean(TRUE), ephe |-> pathStr.s]

SetEphemerisPathOutcome(path, readable, cur) ==
    LET pathStr == GetStringUTFChars(path, readable)
    IN  IF pathStr = Null
        THEN [val |-> JBoolean(FALSE), ephe |-> cur]
        ELSE [val |-> JBoolean(TRUE), ephe |-> pathStr.s]

SetEphemerisPath(t) ==
    /\ CanCall(t)
    /\ \E path \in PathArgs, readable \in BOOLEAN :
         LET o == SetEphemerisPathOutcome(path, readable, ephePath)
         IN  /\ ephePath' = o.ephe
             /\ Return(t, [op |-> "setEphemerisPath", path |-> path,
                           readable |-> readable],
                       [val |-> o.val, exc |-> FALSE,
                        before |-> ephePath, after |-> o.ephe])
    /\ UNCHANGED sidMode

\* ------------------------------------------------------------- getPlanetPositionInternal
PositionKeys == <<"longitude", "latitude", "distance", "speed">>

\* Variant: if (ayanamsha > 0) ...
SidModeAfterSet_Positive(ayanamsha, cur) == IF ayanamsha > 0 THEN ayanamsha ELSE cur

\* if (ayanamsha >= 0) swe_set_sid_mode(ayanamsha, 0, 0);
SidModeAfterSet(ayanamsha, cur) == IF ayanamsha >= 0 THEN ayanamsha ELSE cur

\* Variant: if (result < -1) return nullptr;
CalcFailed_Below(result) == result < -1

\* if (result < 0) return nullptr;
CalcFailed(result) == result < 0

\* Variant: the call is entered only while no other thread is between its
\* swe_set_sid_mode and its swe_calc_ut.
GetPlanetPosition_SetSidMode_Locked(t) ==
    /\ CanCall(t)
    /\ \A u \in Threads \ {t} : pc[u] # "pp_calc"
    /\ \E jd \in JulianDays, planet \in PlanetArgs, ayanamsha \in AyanamshaArgs :
         /\ sidMode' = SidModeAfterSet(ayanamsha, sidMode)
         /\ call' = [call EXCEPT ![t] =
                       [op |-> "getPlanetPosition", jd |-> jd,
                        planet |-> planet, ayanamsha |-> ayanamsha]]
    /\ pc' = [pc EXCEPT ![t] = "pp_calc"]
    /\ ret' = [ret EXCEPT ![t] = NoRet]
    /\ UNCHANGED <<ephePath, crashed>>

\* First step: the call is entered and the sidereal mode is set.  latitude
\* and longitude are accepted and never read.
GetPlanetPosition_SetSidMode(t) ==
    /\ CanCall(t)
    /\ \E jd \in JulianDays, planet \in PlanetArgs, ayanamsha \in AyanamshaArgs :
         /\ sidMode' = SidModeAfterSet(ayanamsha, sidMode)
         /\ call' = [call EXCEPT ![t] =
                       [op |-> "getPlanetPosition", jd |-> jd,
                        planet |-> planet, ayanamsha |-> ayanamsha]]
    /\ pc' = [pc EXCEPT ![t] = "pp_calc"]
    /\ ret' = [ret EXCEPT ![t] = NoRet]
    /\ UNCHANGED <<ephePath, crashed>>

\* The rest of the handler, for the mode and path in force when it runs:
\* swe_calc_ut, the status check, and the marshaling of xx[0..3] into a
\* HashMap.  Every way it can end.
PositionOutcomes(jd, planet, sid, path) ==
    LET lib == swe_calc_ut(jd, planet, sid, path)
    IN  IF CalcFailed(lib.result)
        THEN {[abort |-> FALSE,
               ret |-> [val |-> Null, exc |-> FALSE, result |-> lib.result,
                        sid |-> sid, made |-> FALSE]]}
        ELSE {[abort |-> r.abort,
               ret |-> [val |-> r.val, exc |-> r.exc, result |-> lib.result,
                        sid |-> sid, made |-> TRUE]] :
                 r \in MapResults(PositionKeys, [i \in 1..4 |-> lib.xx[i - 1]])}

\* Second step: the calculation and the marshaling.
GetPlanetPosition_Calc(t) ==
    /\ ~crashed
    /\ pc[t] = "pp_calc"
    /\ \E o \in PositionOutcomes(call[t].jd, call[t].planet, sidMode, ephePath) :
         IF o.abort THEN Abort ELSE Return(t, call[t], o.ret)
    /\ UNCHANGED <<ephePath, sidMode>>

\* ------------------------------------------------------------- getAyanamshaInternal
\* Variant: the offset is computed for the mode named by ayanamshaType.
AyanamshaMode_FromType(ayanamshaType, cur) ==
    IF ayanamshaType >= 0 THEN ayanamshaType ELSE cur

\* The sidereal mode swe_get_ayanamsa_ut(julianDay) computes under.
AyanamshaMode(ayanamshaType, cur) == cur

GetAyanamsha(t) ==
    /\ CanCall(t)
    /\ \E jd \in JulianDays, ayanamshaType \in AyanamshaArgs :
         LET mode == AyanamshaMode(ayanamshaType, sidMode)
         IN  Return(t, [op |-> "getAyanamsha", jd |-> jd,
                        ayanamshaType |-> ayanamshaType],
                    [val |-> JDouble(swe_get_ayanamsa_ut(jd, mode)),
                     exc |-> FALSE, sid |-> sidMode])
    /\ UNCHANGED <<ephePath, sidMode>>

\* ------------------------------------------------------------- getHouseCuspsInternal
\* for (int i = 0; i < 12; i++) add(cusps[i + 1])
HouseCount == 12

\* Variant: for (int i = 0; i < 11; i++)
CuspArgs_Short(cusps) == [n \in 1..(HouseCount - 1) |-> cusps[(n - 1) + 1]]

\* The arguments of the loop's add calls, in order: the n-th call (i = n - 1)
\* is given cusps[i + 1].
CuspArgs(cusps) == [n \in 1..HouseCount |-> cusps[(n - 1) + 1]]

\* if (result < 0) return nullptr;
HouseCuspsFailed(result) == result < 0

HouseArgs == JulianDays \X GeoLats \X GeoLons \X HouseSystemArgs

\* The handler for given arguments: swe_houses, the status check, and the
\* marshaling of the cusps into an ArrayList.  Every way it can end.
HouseCuspsOutcomes(jd, latitude, longitude, houseSystem) ==
    LET lib == swe_houses(jd, latitude, longitude, houseSystem)
    IN  IF HouseCuspsFailed(lib.result)
        THEN {[abort |-> FALSE,
               ret |-> [val |-> Null, exc |-> FALSE, result |-> lib.result]]}
        ELSE {[abort |-> r.abort,
               ret |-> [val |-> r.val, exc |-> r.exc, result |-> lib.result]] :
                 r \in ListResults(CuspArgs(lib.cusps))}

\* The handler's runs: arguments and outcome.
HouseCuspsRuns ==
    UNION {{[a |-> a, o |-> o] :
              o \in HouseCuspsOutcomes(a[1], a[2], a[3], a[4])} : a \in HouseArgs}

GetHouseCusps(t) ==
    /\ CanCall(t)
    /\ \E run \in HouseCuspsRuns :
         IF run.o.abort
         THEN Abort
         ELSE Return(t, [op |-> "getHouseCusps", jd |-> run.a[1],
                         latitude |-> run.a[2], longitude |-> run.a[3],
                         houseSystem |-> run.a[4]],
                     run.o.ret)
    /\ UNCHANGED <<ephePath, sidMode>>

\* ------------------------------------------------------------- getAscendantDataInternal
AscendantKeys ==
    <<"ascendant", "midheaven", "armc", "vertex", "equatorialAscendant">>

\* if (result < 0) return nullptr;
AscendantFailed(result) == result < 0

\* The handler for given arguments: swe_houses, the status check, and the
\* marshaling of ascmc[0..4] into a HashMap.  Every way it can end.
AscendantOutcomes(jd, latitude, longitude, houseSystem) ==
    LET lib == swe_houses(jd, latitude, longitude, houseSystem)
    IN  IF AscendantFailed(lib.result)
        THEN {[abort |-> FALSE,
               ret |-> [val |-> Null, exc |-> FALSE, result |-> lib.result]]}
        ELSE {[abort |-> r.abort,
               ret |-> [val |-> r.val, exc |-> r.exc, result |-> lib.result]] :
                 r \in MapResults(AscendantKeys,
                                  [i \in 1..5 |-> lib.ascmc[i - 1]])}

\* The handler's runs: arguments and outcome.
AscendantRuns ==
    UNION {{[a |-> a, o |-> o] :
              o \in AscendantOutcomes(a[1], a[2], a[3], a[4])} : a \in HouseArgs}

GetAscendantData(t) ==
    /\ CanCall(t)
    /\ \E run \in AscendantRuns :
         IF run.o.abort
         THEN Abort
         ELSE Return(t, [op |-> "getAscendantData", jd |-> run.a[1],
                         latitude |-> run.a[2], longitude |-> run.a[3],
                         houseSystem |-> run.a[4]],
                     run.o.ret)
    /\ UNCHANGED <<ephePath, sidMode>>

\* ------------------------------------------------------------- specifications
\* The entry points that read or write the process-wide path and mode.
Next ==
    \E t \in Threads :
        \/ SetEphemerisPath(t)
        \/ GetPlanetPosition_SetSidMode(t)
        \/ GetPlanetPosition_Calc(t)
        \/ GetAyanamsha(t)

Spec == Init /\ [][Next]_vars

\* The two house entry points, which touch no process-wide state.
NextHouses ==
    \E t \in Threads :
        \/ GetHouseCusps(t)
        \/ GetAscendantData(t)

SpecHouses == Init /\ [][NextHouses]_vars

\* ------------------------------------------------------------- properties
Done(t, op) == pc[t] = "done" /\ call[t].op = op

\* A java.lang.Double holding d.
Boxed(d) == [kind |-> "Double", d |-> d]

\* C1: whenever swe_calc_ut reports a non-negative status, getPlanetPosition
\* returns a map with exactly the keys longitude, latitude, distance and
\* speed, bound to the doubles xx[0], xx[1], xx[2] and xx[3] of that
\* calculation.
C1_PositionMapHoldsSlots ==
    \A t \in Threads :
        Done(t, "getPlanetPosition") /\ ret[t].result >= 0 /\ ~ret[t].exc =>
            LET xx == swe_calc_ut(call[t].jd, call[t].planet, ret[t].sid, ephePath).xx
                v == Delivered(ret[t])
            IN  /\ v.kind = "map"
                /\ DOMAIN v.m = {"longitude", "latitude", "distance", "speed"}
                /\ v.m["longitude"] = Boxed(xx[0])
                /\ v.m["latitude"] = Boxed(xx[1])
                /\ v.m["distance"] = Boxed(xx[2])
                /\ v.m["speed"] = Boxed(xx[3])

\* C2: whenever swe_calc_ut reports a negative status, getPlanetPosition
\* returns null with nothing pending, and no map object was created.
C2_NegativeStatusAbsent ==
    \A t \in Threads :
        Done(t, "getPlanetPosition") /\ ret[t].result < 0 =>
            /\ ret[t].val = Null
            /\ Delivered(ret[t]) = Null
            /\ ~ret[t].made

C2_Witness ==
    \E t \in Threads :
        /\ Done(t, "getPlanetPosition")
        /\ call[t].planet \in Bodies
        /\ ret[t].result < 0
        /\ Delivered(ret[t]) = Null

\* C3: what getHouseCusps hands to its caller is never a list of a length
\* other than 12; it is null when swe_houses reports a negative status.
C3_TwelveOrAbsent ==
    \A t \in Threads :
        Done(t, "getHouseCusps") =>
            LET v == Delivered(ret[t])
            IN  /\ v.kind \in {"null", "list", "thrown"}
                /\ v.kind = "list" => Len(v.s) = 12
                /\ ret[t].result < 0 => v = Null

C3_Witness ==
    \E t \in Threads :
        /\ Done(t, "getHouseCusps")
        /\ ret[t].result >= 0
        /\ Delivered(ret[t]).kind = "list"
        /\ Len(Delivered(ret[t]).s) = 12

\* C4: on success the k-th element of the list getHouseCusps returns is the
\* double cusps[k] of the library's cusp array, k = 1..12, and cusps[0] is no
\* element of it.
C4_ElementsAreCusps ==
    \A t \in Threads :
        Done(t, "getHouseCusps") /\ ret[t].result >= 0 /\ ~ret[t].exc =>
            LET cusps == swe_houses(call[t].jd, call[t].latitude,
                                    call[t].longitude, call[t].houseSystem).cusps
                v == Delivered(ret[t])
            IN  /\ v.kind = "list"
                /\ Len(v.s) = 12
                /\ \A k \in 1..12 : v.s[k] = Boxed(cusps[k])
                /\ \A k \in 1..12 : v.s[k] # Boxed(cusps[0])

\* C5: getHouseCusps and getAscendantData called with identical arguments
\* agree: one returns null exactly when the other does, and otherwise the
\* five angles and the twelve cusps are outputs of one and the same
\* swe_houses computation.
C5_CuspsAndAnglesAgree ==
    \A t, u \in Threads :
        /\ Done(t, "getHouseCusps") /\ ~ret[t].exc
        /\ Done(u, "getAscendantData") /\ ~ret[u].exc
        /\ call[t].jd = call[u].jd
        /\ call[t].latitude = call[u].latitude
        /\ call[t].longitude = call[u].longitude
        /\ call[t].houseSystem = call[u].houseSystem
        => LET h == swe_houses(call[t].jd, call[t].latitude,
                               call[t].longitude, call[t].houseSystem)
               l == Delivered(ret[t])
               m == Delivered(ret[u])
           IN  /\ l = Null <=> m = Null
               /\ l # Null =>
                    /\ \A k \in 1..12 : l.s[k] = Boxed(h.cusps[k])
                    /\ \A i \in 1..5 : m.m[AscendantKeys[i]] = Boxed(h.ascmc[i - 1])

\* C6: setEphemerisPath returns true and installs the path whenever the
\* string can be read, also for a directory that does not exist; when the
\* string cannot be read it returns false and the path is as before.
C6_PathSetUnlessUnreadable ==
    \A t \in Threads :
        Done(t, "setEphemerisPath") =>
            IF call[t].readable
            THEN /\ Delivered(ret[t]) = JBoolean(TRUE)
                 /\ ret[t].after = call[t].path
            ELSE /\ Delivered(ret[t]) = JBoolean(FALSE)
                 /\ ret[t].after = ret[t].before

\* A path without data was accepted, and a later calculation for a known
\* body failed.
C6_Witness ==
    \E t, u \in Threads :
        /\ Done(t, "setEphemerisPath")
        /\ call[t].path \notin EphemerisDirs
        /\ Delivered(ret[t]) = JBoolean(TRUE)
        /\ ephePath = call[t].path
        /\ Done(u, "getPlanetPosition")
        /\ call[u].planet \in Bodies
        /\ ret[u].result < 0

\* One step, as C7 describes it.
C7_Step ==
    /\ \A t \in Threads :
         /\ pc[t] # "pp_calc" /\ pc'[t] = "pp_calc" =>
              sidMode' = IF call'[t].ayanamsha >= 0
                         THEN call'[t].ayanamsha ELSE sidMode
         /\ pc[t] = "pp_calc" /\ pc'[t] = "done" =>
              sidMode' = sidMode /\ ret'[t].sid = sidMode
    /\ sidMode' # sidMode =>
         \E u \in Threads :
            /\ pc[u] # "pp_calc" /\ pc'[u] = "pp_calc"
            /\ call'[u].ayanamsha = sidMode'

\* C7: entering getPlanetPosition with a non-negative ayanamsha sets the
\* sidereal mode to it, with a negative one leaves the mode as it is; the
\* calculation runs under the mode then in force and the return, absent or
\* not, leaves the mode alone; nothing else changes the mode.
C7_SiderealModePersists == [][C7_Step]_vars

\* A call that set the mode returned absent and the mode is still set; a
\* later call with a negative ayanamsha was calculated under it.
C7_Witness ==
    \E t, u \in Threads :
        /\ Done(t, "getPlanetPosition")
        /\ call[t].ayanamsha >= 0
        /\ Delivered(ret[t]) = Null
        /\ sidMode = call[t].ayanamsha
        /\ Done(u, "getPlanetPosition")
        /\ call[u].ayanamsha < 0
        /\ ret[u].sid = call[t].ayanamsha

\* The offsets returned, as C8 describes them.
C8_Results ==
    /\ \A t \in Threads :
         Done(t, "getAyanamsha") =>
            Delivered(ret[t]) = JDouble(swe_get_ayanamsa_ut(call[t].jd, ret[t].sid))
    /\ \A t, u \in Threads :
         /\ Done(t, "getAyanamsha") /\ Done(u, "getAyanamsha")
         /\ call[t].jd = call[u].jd
         /\ ret[t].sid = ret[u].sid
         => Delivered(ret[t]) = Delivered(ret[u])

\* The only step that changes the mode enters getPlanetPosition.
C8_ModeStep ==
    sidMode' # sidMode => \E u \in Threads : call'[u].op = "getPlanetPosition"
                                             /\ pc'[u] = "pp_calc"

\* C8: two getAyanamsha calls made under the same sidereal mode with the
\* same julianDay return the same offset whatever their ayanamshaType, namely
\* the offset for the mode in force; and the mode changes only when
\* getPlanetPosition is entered.
C8_TypeIgnored == []C8_Results /\ [][C8_ModeStep]_vars

C8_Witness ==
    \E t, u \in Threads :
        /\ Done(t, "getAyanamsha") /\ Done(u, "getAyanamsha")
        /\ call[t].jd = call[u].jd
        /\ call[t].ayanamshaType # call[u].ayanamshaType
        /\ call[t].ayanamshaType >= 0
        /\ call[t].ayanamshaType # ret[t].sid
        /\ ret[t].sid = ret[u].sid
        /\ Delivered(ret[t]) = Delivered(ret[u])

\* C9: no call returns to managed code with an exception pending.
C9_NothingThrown ==
    \A t \in Threads : pc[t] = "done" => Delivered(ret[t]) # Thrown

\* C10: nothing serializes the calls: while one thread is between setting
\* the sidereal mode and its calculation, another thread can enter
\* getPlanetPosition and set any mode.
C10_NoSerialization ==
    \A t, u \in Threads :
        t # u /\ pc[t] = "pp_calc" /\ pc[u] \in {"idle", "done"} =>
            \A m \in SidModes :
                ENABLED (GetPlanetPosition_SetSidMode(u) /\ sidMode' = m)

\* A position was calculated, and returned, under the mode the other
\* thread's call asked for.
C10_Witness ==
    \E t, u \in Threads :
        /\ t # u
        /\ Done(t, "getPlanetPosition")
        /\ call[t].ayanamsha >= 0
        /\ ret[t].result >= 0 /\ ~ret[t].exc
        /\ ret[t].sid # call[t].ayanamsha
        /\ call[u].op = "getPlanetPosition"
        /\ call[u].ayanamsha = ret[t].sid

====
